---- MODULE Spec2Model ----
(***************************************************************************)
(* Order & Inventory Allocation Engine of WakaAgenticAI/backend.           *)
(*                                                                         *)
(* The committed database is the pair (orders, inventory), read together   *)
(* with the catalog `products` (product id -> its current price_ngn).  An  *)
(* order id is the position of the order in `orders`; an inventory row id  *)
(* is the position of the row in `inventory`.  Quantities are whole units, *)
(* money is in whole naira (the seeded prices have no fractional part).    *)
(* Every request handler opens its own session and closes it when it       *)
(* returns, so whatever it did not commit is discarded (close_session).    *)
(***************************************************************************)
EXTENDS Integers, Sequences, FiniteSets, TLC

VARIABLES orders, inventory, txns, products

vars == <<orders, inventory, txns, products>>

(* ------------------------------ bounds --------------------------------- *)
MaxOrders == 2
MaxStock == 2
MaxTxns == 2

\* request shapes: quantities per item and items per request
Quantities == {1, 2}
ItemCounts == {0, 1, 2}

(* ---------------------------- catalog ---------------------------------- *)
\* products table as seeded at startup: id -> price_ngn
price_ngn == (1 :> 200) @@ (2 :> 850)

Catalog == DOMAIN price_ngn

\* a product id no row of the products table has
UnknownProduct == CHOOSE p \in 1..(Cardinality(Catalog) + 1) : p \notin Catalog

ProductIds == Catalog \cup {UnknownProduct}

\* warehouses table: "Main" seeded at startup plus one added through the API
Warehouses == {1, 2}

Min(S) == CHOOSE x \in S : \A y \in S : x <= y

\* a default warehouse taken from the other end of the table
LastWarehouse == IF Warehouses = {} THEN 0 ELSE CHOOSE x \in Warehouses : \A y \in Warehouses : x >= y

\* select(Warehouse).order_by(Warehouse.id.asc()).first(); 0 stands for None
DefaultWarehouse == IF Warehouses = {} THEN 0 ELSE Min(Warehouses)

(* ----------------------------- schemas --------------------------------- *)
\* OrderItemIn: product_id >= 1, qty >= 1
OrderItemIn == [product_id : ProductIds, qty : Quantities]

\* OrderCreate.items: List[OrderItemIn], the empty list included
OrderCreate == UNION {[1..n -> OrderItemIn] : n \in ItemCounts}

\* the requests with at most one item
ShortOrderCreate == {data \in OrderCreate : Len(data) <= 1}

\* OrderUpdate.status pattern
OrderUpdateStatus == {"created", "paid", "fulfilled", "cancelled"}

\* the agent's status update takes any non-empty string; two of them here
AgentStatus == {"created", "cancelled"}

(* --------------------------- session handling -------------------------- *)
\* db.commit(): the session's pending state becomes the committed state
commit(committed, pending) == pending

\* a close that keeps what the session flushed
close_session_keeps_pending(committed, pending) == pending

\* db.close() without commit: the pending state is discarded
close_session(committed, pending) == committed

(* --------------------------- order creation ---------------------------- *)
\* a price map read from the prices the catalog was seeded with
price_map_seeded(data) ==
    [p \in {data[i].product_id : i \in DOMAIN data} \cap Catalog |-> price_ngn[p]]

\* price_map = {p.id: p.price_ngn for the products the request names that exist}
price_map(data) ==
    [p \in {data[i].product_id : i \in DOMAIN data} \cap DOMAIN products |-> products[p]]

\* select(Inventory).where(product_id == p, warehouse_id == w).first(); 0 is None
first_inventory(inv, p, w) ==
    LET m == {i \in DOMAIN inv : inv[i].product_id = p /\ inv[i].warehouse_id = w}
    IN  IF m = {} THEN 0 ELSE Min(m)

\* available = on_hand - reserved
available(row) == row.on_hand - row.reserved

\* a check that lets one unit too many through
insufficient_off_by_one(qty, avail) == qty > avail + 1

\* a check that refuses the last available unit
insufficient_at_equal(qty, avail) == qty >= avail

\* if qty > available: raise InsufficientStock
insufficient(qty, avail) == qty > avail

\* a line total that forgets the quantity
line_total_unit_price(price, qty) == price

\* line_total = price * it.qty
line_total(price, qty) == price * qty

\* a unit price taken from the request's item when it carries one
unit_price_from_request(pm, it) ==
    IF "price" \in DOMAIN it THEN it.price ELSE pm[it.product_id]

\* price = float(price_map[it.product_id]): it.price is never read
unit_price(pm, it) == pm[it.product_id]

\* Order(...); db.add(order); db.flush(): status "created", total 0, no items
new_order == [status |-> "created", total |-> 0, items |-> <<>>]

\* Inventory(product_id, warehouse_id, on_hand=0, reserved=0); db.add; db.flush()
new_inventory(p, w) == [product_id |-> p, warehouse_id |-> w, on_hand |-> 0, reserved |-> 0, reorder_point |-> 0]

\* the body of "for it in data.items" from item k on; s is the session:
\* s.db the pending database, s.total the running total, s.err the exception
RECURSIVE create_order_lines(_, _, _, _, _)
create_order_lines(data, k, wh, oid, s) ==
    IF k > Len(data) THEN s
    ELSE
      LET it == data[k]
          pm == price_map(data)
      IN  IF it.product_id \notin DOMAIN pm
          THEN [s EXCEPT !.err = "ProductNotFound", !.product = it.product_id]
          ELSE
            LET price == unit_price(pm, it)
                lt    == line_total(price, it.qty)
                found == first_inventory(s.db.inventory, it.product_id, wh)
                inv1  == IF found = 0
                         THEN Append(s.db.inventory, new_inventory(it.product_id, wh))
                         ELSE s.db.inventory
                idx   == IF found = 0 THEN Len(inv1) ELSE found
            IN  IF insufficient(it.qty, available(inv1[idx]))
                THEN [s EXCEPT !.db.inventory = inv1,
                               !.err = "InsufficientStock",
                               !.product = it.product_id]
                ELSE create_order_lines(data, k + 1, wh, oid,
                       [s EXCEPT
                          !.db.inventory = [inv1 EXCEPT ![idx].reserved = @ + it.qty],
                          !.db.orders = [@ EXCEPT ![oid].items =
                                            Append(@, [product_id |-> it.product_id,
                                                       qty |-> it.qty,
                                                       price |-> price,
                                                       line_total |-> lt])],
                          !.total = @ + lt])

\* orders_service.create_order up to (not including) db.commit(): the session
\* it leaves behind.  The default warehouse exists (startup seeds it).
create_order(db, data) ==
    LET oid == Len(db.orders) + 1
        s0  == [db |-> [db EXCEPT !.orders = Append(@, new_order)],
                total |-> 0, err |-> "none", product |-> 0]
        s1  == create_order_lines(data, 1, DefaultWarehouse, oid, s0)
    IN  IF s1.err = "none"
        THEN [s1 EXCEPT !.db.orders = [@ EXCEPT ![oid].total = s1.total]]
        ELSE s1

Db == [orders |-> orders, inventory |-> inventory]

\* a request whose session is committed however the service call ended
finish_always_commits(db, s) ==
    [db |-> commit(db, s.db), err |-> s.err, product |-> s.product]

\* a request: the handler's session is committed when the service call returns
\* and closed without commit when it raises; the response carries the error
finish(db, s) ==
    [db |-> IF s.err = "none" THEN commit(db, s.db) ELSE close_session(db, s.db),
     err |-> s.err, product |-> s.product]

\* POST /orders and the agent's order.create: one create_order call in a session
\* of its own
request_create_order(db, data) == finish(db, create_order(db, data))

CreateOrder(data) ==
    LET r == request_create_order(Db, data)
    IN  /\ r.err = "none" => Len(orders) < MaxOrders
        /\ orders' = r.db.orders
        /\ inventory' = r.db.inventory
        /\ UNCHANGED <<txns, products>>

(* --------------------------- order fulfilment -------------------------- *)
\* a fulfilment that releases the reservation and leaves the stock in place
consume_reserved_only(row, qty) == [row EXCEPT !.reserved = @ - qty]

\* inv.reserved = inv.reserved - it.qty; inv.on_hand = inv.on_hand - it.qty
consume(row, qty) == [row EXCEPT !.reserved = @ - qty, !.on_hand = @ - qty]

\* a lookup that falls back to the newest order when the id matches none
load_order_or_latest(db, order_id) ==
    IF order_id \in DOMAIN db.orders THEN order_id ELSE Len(db.orders)

\* db.query(Order).filter(Order.id == order_id).first(); 0 is None
load_order(db, order_id) == IF order_id \in DOMAIN db.orders THEN order_id ELSE 0

\* the body of "for it in items" of fulfill_order from item k on
RECURSIVE fulfill_order_lines(_, _, _, _)
fulfill_order_lines(items, k, wh, s) ==
    IF k > Len(items) THEN s
    ELSE
      LET it    == items[k]
          found == first_inventory(s.db.inventory, it.product_id, wh)
      IN  IF found = 0
          THEN [s EXCEPT !.err = "InventoryMissing", !.product = it.product_id]
          ELSE IF s.db.inventory[found].reserved < it.qty
          THEN [s EXCEPT !.err = "ReservedLess", !.product = it.product_id]
          ELSE IF s.db.inventory[found].on_hand < it.qty
          THEN [s EXCEPT !.err = "OnHandLess", !.product = it.product_id]
          ELSE fulfill_order_lines(items, k + 1, wh,
                 [s EXCEPT !.db.inventory =
                              [@ EXCEPT ![found] = consume(@, it.qty)]])

\* orders_service.fulfill_order up to (not including) db.commit()
fulfill_order(db, order_id) ==
    LET s0    == [db |-> db, err |-> "none", product |-> 0]
        order == load_order(db, order_id)
    IN  IF order = 0
        THEN [s0 EXCEPT !.err = "OrderNotFound"]
        ELSE IF DefaultWarehouse = 0
        THEN [s0 EXCEPT !.err = "NoWarehouse"]
        ELSE
          LET s1 == fulfill_order_lines(db.orders[order].items, 1, DefaultWarehouse, s0)
          IN  IF s1.err = "none"
              THEN [s1 EXCEPT !.db.orders = [@ EXCEPT ![order].status = "fulfilled"]]
              ELSE s1

\* POST /orders/{order_id}/fulfill
request_fulfill_order(db, order_id) == finish(db, fulfill_order(db, order_id))

(* ------------------------------ the API layer -------------------------- *)
\* the class a service error is raised as: InsufficientStock(Exception), and
\* ValueError for everything else the services raise
exception_class(err) ==
    IF err = "none" THEN "none"
    ELSE IF err = "InsufficientStock" THEN "InsufficientStock"
    ELSE "ValueError"

\* order_updated(order_id, payload=None) takes two positional arguments; the
\* endpoints call order_updated(req.app, order_id, {...}): TypeError
OrderUpdatedTakesApp == FALSE

\* what audit_log meets: whether the "audit" logger and the audit store work
AuditOutcomes == [logger : BOOLEAN, store : BOOLEAN]

AuditWorks == [logger |-> TRUE, store |-> TRUE]

\* the notification audit_log(action=..., entity="order", entity_id=...) carries
notification(action, entity_id) ==
    [action |-> action, entity |-> "order", entity_id |-> entity_id]

\* an audit_log that lets the logger's or the store's exception out
audit_log_raising(outcome, action, entity_id) ==
    [raised |-> ~outcome.logger \/ ~outcome.store,
     rows |-> IF outcome.store THEN {notification(action, entity_id)} ELSE {}]

\* audit_log: _audit_logger.info in a try/except that passes, then the AuditLog
\* row added and committed in a session of its own, in a try/except that
\* passes; rows is what reaches the audit_logs table
audit_log(outcome, action, entity_id) ==
    [raised |-> FALSE,
     rows |-> IF outcome.store THEN {notification(action, entity_id)} ELSE {}]

\* POST /orders as a whole: the committed database, the response's status
\* code, the error behind it and the audit notifications issued (none: the
\* handler does not call audit_log).  ValueError -> 400, InsufficientStock ->
\* 409; after a committed create the TypeError of order_updated is caught by
\* neither except clause: 500
create_order_endpoint(db, data) ==
    LET r == request_create_order(db, data)
    IN  [db |-> r.db,
         code |-> IF r.err = "none" THEN (IF OrderUpdatedTakesApp THEN 200 ELSE 500)
                  ELSE IF exception_class(r.err) = "ValueError" THEN 400
                  ELSE 409,
         error |-> IF r.err = "none" /\ ~OrderUpdatedTakesApp THEN "TypeError" ELSE r.err,
         audit |-> <<>>,
         audit_rows |-> {}]

\* POST /orders/{order_id}/fulfill as a whole: after the service committed,
\* audit_log(action="fulfill", ...) and then order_updated; ValueError -> 400
fulfill_order_endpoint(db, order_id, outcome) ==
    LET r == request_fulfill_order(db, order_id)
        a == audit_log(outcome, "fulfill", order_id)
    IN  IF r.err # "none"
        THEN [db |-> r.db, code |-> 400, error |-> r.err,
              audit |-> <<>>, audit_rows |-> {}]
        ELSE [db |-> r.db,
              code |-> IF a.raised \/ ~OrderUpdatedTakesApp THEN 500 ELSE 200,
              error |-> IF a.raised THEN "AuditError"
                        ELSE IF ~OrderUpdatedTakesApp THEN "TypeError" ELSE "none",
              audit |-> <<notification("fulfill", order_id)>>,
              audit_rows |-> a.rows]

FulfillOrder(order_id) ==
    \E outcome \in AuditOutcomes :
        LET r == fulfill_order_endpoint(Db, order_id, outcome)
        IN  /\ orders' = r.db.orders
            /\ inventory' = r.db.inventory
            /\ UNCHANGED <<txns, products>>

(* --------------------------- order cancellation ------------------------ *)
\* OrderItem maps id, order_id, product_id, qty, price, line_total: reading
\* item.quantity raises AttributeError
OrderItemHasQuantity == FALSE

\* if order.status in ["cancelled", "shipped", "delivered"]
cancel_refused(status) == status \in {"cancelled", "shipped", "delivered"}

Max(a, b) == IF a >= b THEN a ELSE b

\* the rows db.query(Inventory).filter(product_id == p).first() can return for
\* each product (no warehouse filter, no ORDER BY); 0 is None
InventoryPicks(inv) ==
    {sel \in [Catalog -> 0..Len(inv)] :
        \A p \in Catalog :
            LET m == {i \in DOMAIN inv : inv[i].product_id = p}
            IN  IF m = {} THEN sel[p] = 0 ELSE sel[p] \in m}

\* the body of "for item in order_items" of _cancel_order from item k on
RECURSIVE cancel_order_lines(_, _, _, _)
cancel_order_lines(items, k, sel, s) ==
    IF k > Len(items) THEN s
    ELSE
      LET item  == items[k]
          found == sel[item.product_id]
      IN  IF found = 0
          THEN cancel_order_lines(items, k + 1, sel, s)
          ELSE IF ~OrderItemHasQuantity
          THEN [s EXCEPT !.err = "AttributeError", !.product = item.product_id]
          ELSE cancel_order_lines(items, k + 1, sel,
                 [s EXCEPT !.db.inventory =
                              [@ EXCEPT ![found].reserved = Max(0, @ - item.qty)]])

\* OrdersAgent._cancel_order up to (not including) db.commit()
_cancel_order(db, order_id, sel) ==
    LET s0 == [db |-> db, err |-> "none", product |-> 0]
    IN  IF order_id = 0
        THEN [s0 EXCEPT !.err = "Required"]
        ELSE IF order_id \notin DOMAIN db.orders
        THEN [s0 EXCEPT !.err = "OrderNotFound"]
        ELSE IF cancel_refused(db.orders[order_id].status)
        THEN [s0 EXCEPT !.err = "CannotCancel"]
        ELSE cancel_order_lines(db.orders[order_id].items, 1, sel,
               [s0 EXCEPT !.db.orders = [@ EXCEPT ![order_id].status = "cancelled"]])

\* the agent's order.cancel: the session is closed in the finally clause, so an
\* exception or an early return leaves the database as it was
request_cancel_order(db, order_id, sel) == finish(db, _cancel_order(db, order_id, sel))

\* the agent's order.cancel as a whole: _cancel_order never calls audit_log
cancel_order_agent(db, order_id, sel) ==
    LET r == request_cancel_order(db, order_id, sel)
    IN  [db |-> r.db, error |-> r.err, audit |-> <<>>, audit_rows |-> {}]

CancelOrder(order_id) ==
    \E sel \in InventoryPicks(inventory) :
        LET r == request_cancel_order(Db, order_id, sel)
        IN  /\ orders' = r.db.orders
            /\ inventory' = r.db.inventory
            /\ UNCHANGED <<txns, products>>

(* ----------------------------- status updates -------------------------- *)
\* o.status = body.status
set_status(db, order_id, status) ==
    [db EXCEPT !.orders = [@ EXCEPT ![order_id].status = status]]

\* PATCH /orders/{order_id}: 404 when the order does not exist
update_order(db, order_id, status) ==
    LET s0 == [db |-> db, err |-> "none", product |-> 0]
    IN  IF order_id \notin DOMAIN db.orders
        THEN [s0 EXCEPT !.err = "OrderNotFound"]
        ELSE [s0 EXCEPT !.db = set_status(db, order_id, status)]

\* PATCH /orders/{order_id} as a whole: after the commit,
\* audit_log(action="update", ...) and then order_updated
update_order_endpoint(db, order_id, status, outcome) ==
    LET r == finish(db, update_order(db, order_id, status))
        a == audit_log(outcome, "update", order_id)
    IN  IF r.err # "none"
        THEN [db |-> r.db, code |-> 404, error |-> r.err,
              audit |-> <<>>, audit_rows |-> {}]
        ELSE [db |-> r.db,
              code |-> IF a.raised \/ ~OrderUpdatedTakesApp THEN 500 ELSE 200,
              error |-> IF a.raised THEN "AuditError"
                        ELSE IF ~OrderUpdatedTakesApp THEN "TypeError" ELSE "none",
              audit |-> <<notification("update", order_id)>>,
              audit_rows |-> a.rows]

UpdateOrder(order_id, status) ==
    LET r == finish(Db, update_order(Db, order_id, status))
    IN  /\ orders' = r.db.orders
        /\ inventory' = r.db.inventory
        /\ UNCHANGED <<txns, products>>

\* OrdersAgent._update_order_status
_update_order_status(db, order_id, status) ==
    LET s0 == [db |-> db, err |-> "none", product |-> 0]
    IN  IF order_id = 0
        THEN [s0 EXCEPT !.err = "Required"]
        ELSE IF order_id \notin DOMAIN db.orders
        THEN [s0 EXCEPT !.err = "OrderNotFound"]
        ELSE [s0 EXCEPT !.db = set_status(db, order_id, status)]

UpdateOrderStatus(order_id, status) ==
    LET r == finish(Db, _update_order_status(Db, order_id, status))
    IN  /\ orders' = r.db.orders
        /\ inventory' = r.db.inventory
        /\ UNCHANGED <<txns, products>>

\* OrdersAgent._process_payment
_process_payment(db, order_id, amount) ==
    LET s0 == [db |-> db, err |-> "none", product |-> 0]
    IN  IF order_id = 0 \/ amount = 0
        THEN [s0 EXCEPT !.err = "Required"]
        ELSE IF order_id \notin DOMAIN db.orders
        THEN [s0 EXCEPT !.err = "OrderNotFound"]
        ELSE IF amount # db.orders[order_id].total
        THEN [s0 EXCEPT !.err = "AmountMismatch"]
        ELSE [s0 EXCEPT !.db = set_status(db, order_id, "paid")]

ProcessPayment(order_id, amount) ==
    LET r == finish(Db, _process_payment(Db, order_id, amount))
    IN  /\ orders' = r.db.orders
        /\ inventory' = r.db.inventory
        /\ UNCHANGED <<txns, products>>

(* ------------------------------ the system ----------------------------- *)
inventory_row(p, w, h, r) == [product_id |-> p, warehouse_id |-> w, on_hand |-> h, reserved |-> r, reorder_point |-> 0]

\* product 1 has a fully stocked record in both warehouses; product 2 has a
\* record with one unit in the default warehouse or, added to the catalog
\* after startup, none yet
InitialInventories ==
    {<<inventory_row(1, 1, MaxStock, 0), inventory_row(1, 2, MaxStock, 0)>>,
     <<inventory_row(1, 1, MaxStock, 0), inventory_row(1, 2, MaxStock, 0),
       inventory_row(2, 1, 1, 0)>>}

NoTxns == <<>>

Init ==
    /\ products = price_ngn
    /\ orders = <<>>
    /\ inventory \in InitialInventories
    /\ txns = NoTxns

\* 0 is a missing order_id; an id beyond Len(orders) names no order
OrderIds == 0..MaxOrders

\* no amount, a wrong amount, the order's total
PayAmounts(order_id) ==
    {0, 1} \cup {orders[i].total : i \in DOMAIN orders \cap {order_id}}

Next ==
    \/ \E data \in OrderCreate : CreateOrder(data)
    \/ \E order_id \in OrderIds : FulfillOrder(order_id)
    \/ \E order_id \in OrderIds : CancelOrder(order_id)
    \/ \E order_id \in OrderIds, status \in OrderUpdateStatus : UpdateOrder(order_id, status)
    \/ \E order_id \in OrderIds, status \in AgentStatus : UpdateOrderStatus(order_id, status)
    \/ \E order_id \in OrderIds : \E amount \in PayAmounts(order_id) :
          ProcessPayment(order_id, amount)

Spec == Init /\ [][Next]_vars

\* the engine's own three operations, without the status updates
NextEngine ==
    \/ \E data \in OrderCreate : CreateOrder(data)
    \/ \E order_id \in OrderIds : FulfillOrder(order_id)
    \/ \E order_id \in OrderIds : CancelOrder(order_id)

SpecEngine == Init /\ [][NextEngine]_vars

(* ------------------------- concurrent requests ------------------------- *)
(* Each request runs in a session of its own (SessionLocal, autoflush off)  *)
(* under the store's default isolation, READ COMMITTED: a SELECT sees what  *)
(* is committed at that moment, except that a row the session already holds *)
(* is returned from its identity map as the session left it; db.commit()    *)
(* flushes one UPDATE per changed row, SET <changed column> = <the value    *)
(* the session computed>, and commits.  Nothing locks a row between the     *)
(* SELECT and the UPDATE.  txns[t].rows is the identity map of session t.   *)
Txns == 1..MaxTxns

NoRows == [i \in {} |-> 0]

start_create_order(data) ==
    [kind |-> "create", data |-> data, order_id |-> 0, pc |-> "lines", k |-> 1,
     rows |-> NoRows, items |-> <<>>, total |-> 0, err |-> "none"]

start_fulfill_order(order_id) ==
    [kind |-> "fulfill", data |-> <<>>, order_id |-> order_id, pc |-> "start", k |-> 1,
     rows |-> NoRows, items |-> <<>>, total |-> 0, err |-> "none"]

start_cancel_order(order_id) ==
    [kind |-> "cancel", data |-> <<>>, order_id |-> order_id, pc |-> "start", k |-> 1,
     rows |-> NoRows, items |-> <<>>, total |-> 0, err |-> "none"]

\* the row a session's SELECT of row i yields
session_row(t, i) == IF i \in DOMAIN txns[t].rows THEN txns[t].rows[i] ELSE inventory[i]

\* the session holds row i with the values r
hold(t, i, r) == [j \in DOMAIN txns[t].rows \cup {i} |-> IF j = i THEN r ELSE txns[t].rows[j]]

\* an exception or an early return: the session is closed, nothing is written
TxRaise(t, err) ==
    /\ txns' = [txns EXCEPT ![t].pc = "failed", ![t].err = err]
    /\ UNCHANGED <<orders, inventory, products>>

\* the flush of db.commit() for the inventory rows session t changed
flush_reserved(t) ==
    [i \in DOMAIN inventory |->
        IF i \in DOMAIN txns[t].rows
        THEN [inventory[i] EXCEPT !.reserved = txns[t].rows[i].reserved]
        ELSE inventory[i]]

flush_reserved_on_hand(t) ==
    [i \in DOMAIN inventory |->
        IF i \in DOMAIN txns[t].rows
        THEN [inventory[i] EXCEPT !.reserved = txns[t].rows[i].reserved,
                                  !.on_hand = txns[t].rows[i].on_hand]
        ELSE inventory[i]]

\* create_order, one pass of "for it in data.items"
TxCreateLine(t) ==
    /\ txns[t].kind = "create" /\ txns[t].pc = "lines" /\ txns[t].k <= Len(txns[t].data)
    /\ LET it    == txns[t].data[txns[t].k]
           pm    == price_map(txns[t].data)
           found == first_inventory(inventory, it.product_id, DefaultWarehouse)
       IN  IF it.product_id \notin DOMAIN pm
           THEN TxRaise(t, "ProductNotFound")
           ELSE IF found = 0
           \* the row the session inserts has nothing available and qty >= 1
           THEN TxRaise(t, "InsufficientStock")
           ELSE IF insufficient(it.qty, available(session_row(t, found)))
           THEN TxRaise(t, "InsufficientStock")
           ELSE /\ txns' = [txns EXCEPT
                     ![t].rows = hold(t, found, [session_row(t, found) EXCEPT
                                                    !.reserved = @ + it.qty]),
                     ![t].items = Append(@, [product_id |-> it.product_id, qty |-> it.qty,
                                             price |-> pm[it.product_id],
                                             line_total |-> line_total(pm[it.product_id], it.qty)]),
                     ![t].total = @ + line_total(pm[it.product_id], it.qty),
                     ![t].k = @ + 1]
                /\ UNCHANGED <<orders, inventory, products>>

\* create_order: order.total = total; db.commit()
TxCreateCommit(t) ==
    /\ txns[t].kind = "create" /\ txns[t].pc = "lines" /\ txns[t].k > Len(txns[t].data)
    /\ orders' = Append(orders, [status |-> "created", total |-> txns[t].total,
                                 items |-> txns[t].items])
    /\ inventory' = flush_reserved(t)
    /\ txns' = [txns EXCEPT ![t].pc = "committed", ![t].order_id = Len(orders) + 1]
    /\ UNCHANGED products

\* fulfill_order: the order and its items are loaded
TxFulfillLoad(t) ==
    /\ txns[t].kind = "fulfill" /\ txns[t].pc = "start"
    /\ IF txns[t].order_id \notin DOMAIN orders
       THEN TxRaise(t, "OrderNotFound")
       ELSE /\ txns' = [txns EXCEPT ![t].pc = "lines",
                                    ![t].items = orders[txns[t].order_id].items]
            /\ UNCHANGED <<orders, inventory, products>>

\* fulfill_order, one pass of "for it in items"
TxFulfillLine(t) ==
    /\ txns[t].kind = "fulfill" /\ txns[t].pc = "lines" /\ txns[t].k <= Len(txns[t].items)
    /\ LET it    == txns[t].items[txns[t].k]
           found == first_inventory(inventory, it.product_id, DefaultWarehouse)
       IN  IF found = 0
           THEN TxRaise(t, "InventoryMissing")
           ELSE IF session_row(t, found).reserved < it.qty
           THEN TxRaise(t, "ReservedLess")
           ELSE IF session_row(t, found).on_hand < it.qty
           THEN TxRaise(t, "OnHandLess")
           ELSE /\ txns' = [txns EXCEPT
                     ![t].rows = hold(t, found, consume(session_row(t, found), it.qty)),
                     ![t].k = @ + 1]
                /\ UNCHANGED <<orders, inventory, products>>

\* fulfill_order: order.status = "fulfilled"; db.commit()
TxFulfillCommit(t) ==
    /\ txns[t].kind = "fulfill" /\ txns[t].pc = "lines" /\ txns[t].k > Len(txns[t].items)
    /\ orders' = [orders EXCEPT ![txns[t].order_id].status = "fulfilled"]
    /\ inventory' = flush_reserved_on_hand(t)
    /\ txns' = [txns EXCEPT ![t].pc = "committed"]
    /\ UNCHANGED products

\* _cancel_order: the order is loaded, its status checked and set in the
\* session, its items loaded
TxCancelLoad(t) ==
    /\ txns[t].kind = "cancel" /\ txns[t].pc = "start"
    /\ IF txns[t].order_id = 0
       THEN TxRaise(t, "Required")
       ELSE IF txns[t].order_id \notin DOMAIN orders
       THEN TxRaise(t, "OrderNotFound")
       ELSE IF cancel_refused(orders[txns[t].order_id].status)
       THEN TxRaise(t, "CannotCancel")
       ELSE /\ txns' = [txns EXCEPT ![t].pc = "lines",
                                    ![t].items = orders[txns[t].order_id].items]
            /\ UNCHANGED <<orders, inventory, products>>

\* _cancel_order, one pass of "for item in order_items"
TxCancelLine(t) ==
    /\ txns[t].kind = "cancel" /\ txns[t].pc = "lines" /\ txns[t].k <= Len(txns[t].items)
    /\ \E sel \in InventoryPicks(inventory) :
         LET item  == txns[t].items[txns[t].k]
             found == sel[item.product_id]
         IN  IF found = 0
             THEN /\ txns' = [txns EXCEPT ![t].k = @ + 1]
                  /\ UNCHANGED <<orders, inventory, products>>
             ELSE IF ~OrderItemHasQuantity
             THEN TxRaise(t, "AttributeError")
             ELSE /\ txns' = [txns EXCEPT
                       ![t].rows = hold(t, found, [session_row(t, found) EXCEPT
                                                      !.reserved = Max(0, @ - item.qty)]),
                       ![t].k = @ + 1]
                  /\ UNCHANGED <<orders, inventory, products>>

\* _cancel_order: db.commit()
TxCancelCommit(t) ==
    /\ txns[t].kind = "cancel" /\ txns[t].pc = "lines" /\ txns[t].k > Len(txns[t].items)
    /\ orders' = [orders EXCEPT ![txns[t].order_id].status = "cancelled"]
    /\ inventory' = flush_reserved(t)
    /\ txns' = [txns EXCEPT ![t].pc = "committed"]
    /\ UNCHANGED products

\* the database before any order, product 2 not yet stocked
EmptyDb ==
    [orders |-> <<>>,
     inventory |-> <<inventory_row(1, 1, MaxStock, 0), inventory_row(1, 2, MaxStock, 0)>>]

one_unit(p) == <<[product_id |-> p, qty |-> 1]>>

\* the database after MaxStock orders of one unit of product 1 and an order
\* without items
BusyDb ==
    LET RECURSIVE fill(_, _)
        fill(db, n) == IF n = 0 THEN db
                       ELSE fill(request_create_order(db, one_unit(1)).db, n - 1)
    IN  request_create_order(fill(EmptyDb, MaxStock), <<>>).db

ConcRequests ==
    {start_create_order(data) : data \in OrderCreate}
    \cup {start_fulfill_order(o) : o \in 1..(MaxStock + 2)}
    \cup {start_cancel_order(o) : o \in 0..(MaxStock + 2)}

\* MaxTxns requests arrive together, against either database
InitConc ==
    /\ products = price_ngn
    /\ \E db \in {EmptyDb, BusyDb} : orders = db.orders /\ inventory = db.inventory
    /\ txns \in [Txns -> ConcRequests]

NextConc ==
    \E t \in Txns :
        \/ TxCreateLine(t)
        \/ TxCreateCommit(t)
        \/ TxFulfillLoad(t)
        \/ TxFulfillLine(t)
        \/ TxFulfillCommit(t)
        \/ TxCancelLoad(t)
        \/ TxCancelLine(t)
        \/ TxCancelCommit(t)

SpecConc == InitConc /\ [][NextConc]_vars

(* ------------------------------ properties ----------------------------- *)
RECURSIVE SumSeq(_)
SumSeq(q) == IF q = <<>> THEN 0 ELSE q[1] + SumSeq(Tail(q))

\* the units of product p on the lines of the item list
UnitsOf(items, p) ==
    SumSeq([k \in DOMAIN items |-> IF items[k].product_id = p THEN items[k].qty ELSE 0])

\* the units of product p on the lines of the orders whose status is in S
UnitsHeld(p, S) ==
    SumSeq([o \in DOMAIN orders |->
               IF orders[o].status \in S THEN UnitsOf(orders[o].items, p) ELSE 0])

\* C1: one request at a time, every Inventory Record keeps on_hand >= 0,
\* reserved >= 0 and on_hand - reserved >= 0
C1_StockNeverNegative ==
    \A i \in DOMAIN inventory :
        /\ inventory[i].on_hand >= 0
        /\ inventory[i].reserved >= 0
        /\ inventory[i].on_hand - inventory[i].reserved >= 0

\* stock has been consumed by a fulfilment while another order still holds all
\* that is left
C1_Witness ==
    /\ \E o \in DOMAIN orders : orders[o].status = "fulfilled" /\ orders[o].items # <<>>
    /\ \E i \in DOMAIN inventory :
          /\ inventory[i].on_hand < MaxStock
          /\ inventory[i].reserved > 0
          /\ inventory[i].reserved = inventory[i].on_hand

\* C2: a create_order request that fails on any line leaves the committed
\* orders and inventory exactly as they were
C2_FailedCreateLeavesNothing ==
    \A data \in OrderCreate :
        create_order(Db, data).err # "none" =>
            /\ request_create_order(Db, data).db.orders = orders
            /\ request_create_order(Db, data).db.inventory = inventory

\* after an order was placed, a request fails on its second line with the
\* first line already reserved in the session
C2_Witness ==
    /\ orders # <<>>
    /\ \E data \in OrderCreate :
          /\ Len(data) = 2
          /\ create_order(Db, data).err = "InsufficientStock"
          /\ create_order(Db, data).db.inventory # inventory
          /\ Len(create_order(Db, data).db.orders) = Len(orders) + 1

\* C3: fulfilling an order that is already fulfilled or cancelled leaves
\* on_hand and reserved of every Inventory Record unchanged (stock is never
\* consumed twice for one order)
C3_NoDoubleConsumption ==
    \A o \in DOMAIN orders :
        orders[o].status \in {"fulfilled", "cancelled"} =>
            request_fulfill_order(Db, o).db.inventory = inventory

\* C6: every status change follows created -> paid | cancelled, paid ->
\* fulfilled | cancelled; stated here by what that table implies for its two
\* final statuses: no order ever leaves status fulfilled or cancelled
C6_TerminalStatusIsFinal ==
    [][\A o \in DOMAIN orders :
          orders[o].status \in {"fulfilled", "cancelled"} =>
              orders'[o].status = orders[o].status]_vars

\* C7: every persisted order has total = sum of its lines' line_total and
\* every line has line_total = price * qty
C7_TotalsReconcile ==
    \A o \in DOMAIN orders :
        /\ orders[o].total =
              SumSeq([k \in DOMAIN orders[o].items |-> orders[o].items[k].line_total])
        /\ \A k \in DOMAIN orders[o].items :
              orders[o].items[k].line_total = orders[o].items[k].price * orders[o].items[k].qty

\* an order of two lines, one of them for two units
C7_Witness ==
    \E o \in DOMAIN orders :
        /\ Len(orders[o].items) = 2
        /\ \E k \in DOMAIN orders[o].items : orders[o].items[k].qty = 2

\* C8: a successful create_order adds exactly one order, status created, total
\* >= 0, one line per request item, and raises reserved of each product's
\* record in the lowest-id warehouse by the units requested for it; on_hand and
\* every other record stay as they were
C8_CreateReservesExactly ==
    \A data \in OrderCreate :
        LET r == request_create_order(Db, data)
        IN  r.err = "none" =>
              /\ Len(r.db.orders) = Len(orders) + 1
              /\ SubSeq(r.db.orders, 1, Len(orders)) = orders
              /\ r.db.orders[Len(orders) + 1].status = "created"
              /\ r.db.orders[Len(orders) + 1].total >= 0
              /\ Len(r.db.orders[Len(orders) + 1].items) = Len(data)
              /\ \A k \in DOMAIN data :
                    /\ r.db.orders[Len(orders) + 1].items[k].product_id = data[k].product_id
                    /\ r.db.orders[Len(orders) + 1].items[k].qty = data[k].qty
              /\ DOMAIN r.db.inventory = DOMAIN inventory
              /\ \A i \in DOMAIN inventory :
                    /\ r.db.inventory[i].product_id = inventory[i].product_id
                    /\ r.db.inventory[i].warehouse_id = inventory[i].warehouse_id
                    /\ r.db.inventory[i].on_hand = inventory[i].on_hand
                    /\ r.db.inventory[i].reserved =
                          inventory[i].reserved +
                          (IF \A w \in Warehouses : inventory[i].warehouse_id <= w
                           THEN UnitsOf(data, inventory[i].product_id) ELSE 0)

\* an order with two lines for the same product exists and the record of the
\* default warehouse holds both
C8_Witness ==
    \E o \in DOMAIN orders :
        /\ Len(orders[o].items) = 2
        /\ orders[o].items[1].product_id = orders[o].items[2].product_id
        /\ orders[o].status = "created"
        /\ \E i \in DOMAIN inventory :
              /\ inventory[i].product_id = orders[o].items[1].product_id
              /\ inventory[i].warehouse_id = 1
              /\ inventory[i].reserved >= 2

\* what the default warehouse has available of product p (nothing without a record)
AvailableOf(p) ==
    LET m == {i \in DOMAIN inventory :
                 inventory[i].product_id = p /\ inventory[i].warehouse_id = 1}
    IN  IF m = {} THEN 0
        ELSE inventory[Min(m)].on_hand - inventory[Min(m)].reserved

\* line k of the request fits: its quantity is within what is available after
\* the earlier lines of the same request
LineFits(data, k) ==
    data[k].qty <= AvailableOf(data[k].product_id)
                     - UnitsOf(SubSeq(data, 1, k - 1), data[k].product_id)

\* C9: a request for known products succeeds exactly when every line fits, and
\* otherwise fails with InsufficientStock naming the product of the first line
\* that does not fit
C9_AcceptedIffAvailable ==
    \A data \in OrderCreate :
        (\A k \in DOMAIN data : data[k].product_id \in Catalog) =>
            LET r == request_create_order(Db, data)
                bad == {k \in DOMAIN data : ~LineFits(data, k)}
            IN  IF bad = {}
                THEN r.err = "none"
                ELSE r.err = "InsufficientStock" /\ r.product = data[Min(bad)].product_id

\* an order took exactly what was available (the record is fully reserved),
\* and one more unit is refused
C9_Witness ==
    /\ \E o \in DOMAIN orders : orders[o].items # <<>>
    /\ \E i \in DOMAIN inventory :
          /\ inventory[i].warehouse_id = 1
          /\ inventory[i].on_hand = MaxStock
          /\ inventory[i].reserved = inventory[i].on_hand
          /\ request_create_order(Db, one_unit(inventory[i].product_id)).err = "InsufficientStock"

\* C10: a request naming a product that is not in the catalog fails with the
\* product-not-found error and changes nothing
C10_UnknownProductNotFound ==
    \A data \in OrderCreate :
        (\E k \in DOMAIN data : data[k].product_id \notin Catalog) =>
            /\ request_create_order(Db, data).err = "ProductNotFound"
            /\ request_create_order(Db, data).db = Db

\* every concurrent request has returned
AllReturned == \A t \in Txns : txns[t].pc \in {"committed", "failed"}

\* C4: after concurrent create_order calls only, each record of the default
\* warehouse has every unit of every committed order reserved (no update is
\* lost) and reserved <= on_hand
C4_ConcurrentCreatesKeepReservations ==
    (AllReturned /\ \A t \in Txns : txns[t].kind = "create") =>
        \A i \in DOMAIN inventory :
            inventory[i].warehouse_id = 1 =>
                /\ inventory[i].reserved = UnitsHeld(inventory[i].product_id, {"created"})
                /\ inventory[i].reserved <= inventory[i].on_hand

\* C5: after concurrent fulfil and cancel requests only, each record of the
\* default warehouse has lost from on_hand no more than the units of the
\* fulfilled orders, and from reserved no more than the units of the fulfilled
\* and cancelled orders: each order's units were subtracted at most once
C5_ConcurrentFulfilSubtractsOnce ==
    (AllReturned /\ \A t \in Txns : txns[t].kind \in {"fulfill", "cancel"}) =>
        \A i \in DOMAIN inventory :
            inventory[i].warehouse_id = 1 =>
                /\ inventory[i].on_hand
                      >= MaxStock - UnitsHeld(inventory[i].product_id, {"fulfilled"})
                /\ inventory[i].reserved
                      >= UnitsHeld(inventory[i].product_id, {"created", "paid"})

\* the units a fulfilment of the item list takes from record i: those of the
\* lines whose product's record in the default warehouse it is
UnitsTaken(inv, items, i) ==
    IF i = first_inventory(inv, inv[i].product_id, DefaultWarehouse)
    THEN UnitsOf(items, inv[i].product_id) ELSE 0

\* C11: a successful fulfill_order lowers reserved and on_hand of each line's
\* Inventory Record by that line's quantity, changes no other record and sets
\* the order's status to fulfilled; after create followed by fulfil, reserved
\* is back to its value before the create and on_hand is lower by the ordered
\* quantity
C11_FulfilConsumesReservation ==
    /\ \A o \in DOMAIN orders :
          LET r == request_fulfill_order(Db, o)
          IN  r.err = "none" =>
                /\ r.db.orders = [orders EXCEPT ![o].status = "fulfilled"]
                /\ DOMAIN r.db.inventory = DOMAIN inventory
                /\ \A i \in DOMAIN inventory :
                      r.db.inventory[i] =
                          [inventory[i] EXCEPT
                              !.reserved = @ - UnitsTaken(inventory, orders[o].items, i),
                              !.on_hand = @ - UnitsTaken(inventory, orders[o].items, i)]
    /\ \A data \in OrderCreate :
          LET c == request_create_order(Db, data)
              f == request_fulfill_order(c.db, Len(orders) + 1)
          IN  (c.err = "none" /\ f.err = "none") =>
                /\ f.db.orders[Len(orders) + 1].status = "fulfilled"
                /\ DOMAIN f.db.inventory = DOMAIN inventory
                /\ \A i \in DOMAIN inventory :
                      f.db.inventory[i] =
                          [inventory[i] EXCEPT
                              !.on_hand = @ - UnitsTaken(inventory, data, i)]

\* an order of two lines was created and then fulfilled: its product's record
\* has nothing reserved and has lost exactly the order's units from on_hand
C11_Witness ==
    \E o \in DOMAIN orders :
        /\ orders[o].status = "fulfilled"
        /\ Len(orders[o].items) = 2
        /\ \E i \in DOMAIN inventory :
              /\ i = first_inventory(inventory, orders[o].items[1].product_id, DefaultWarehouse)
              /\ inventory[i].reserved = 0
              /\ inventory[i].on_hand = MaxStock - UnitsOf(orders[o].items, inventory[i].product_id)
              /\ inventory[i].on_hand < MaxStock

\* C12: when fulfill_order finds reserved < quantity or on_hand < quantity on
\* any line, the request fails and the committed orders and Inventory Records
\* are what they were, the records of the earlier lines included: every later
\* operation starts from the state before the call
C12_FailedFulfilLeavesNothing ==
    \A o \in DOMAIN orders :
        fulfill_order(Db, o).err \in {"ReservedLess", "OnHandLess"} =>
            /\ request_fulfill_order(Db, o).err = fulfill_order(Db, o).err
            /\ request_fulfill_order(Db, o).db = Db

\* a two-line order whose first line passes both checks and is consumed in the
\* session, and whose second line has less reserved than its quantity
C12_Witness ==
    \E o \in DOMAIN orders :
        /\ Len(orders[o].items) = 2
        /\ fulfill_order(Db, o).err = "ReservedLess"
        /\ fulfill_order(Db, o).product = orders[o].items[2].product_id
        /\ fulfill_order(Db, o).db.inventory # inventory

\* C13: creating an order and cancelling it at once, whichever records the
\* cancellation's queries return, puts reserved of every Inventory Record back
\* to its value before the create, leaves on_hand as it was and leaves the
\* order in status cancelled
C13_CreateThenCancelRestores ==
    \A data \in OrderCreate :
        LET c == request_create_order(Db, data)
        IN  c.err = "none" =>
              \A sel \in InventoryPicks(c.db.inventory) :
                  LET r == request_cancel_order(c.db, Len(orders) + 1, sel)
                  IN  /\ r.db.inventory = inventory
                      /\ r.db.orders[Len(orders) + 1].status = "cancelled"

\* C14: cancelling an order whose status is cancelled or fulfilled is refused
\* as an invalid transition ("Cannot cancel order with status ...") and leaves
\* the order's status and every Inventory Record unchanged
C14_CancelTerminalRefused ==
    \A o \in DOMAIN orders :
        orders[o].status \in {"cancelled", "fulfilled"} =>
            \A sel \in InventoryPicks(inventory) :
                /\ request_cancel_order(Db, o, sel).err = "CannotCancel"
                /\ request_cancel_order(Db, o, sel).db = Db

\* C15: a create request with an empty item list is rejected: in every
\* reachable state every persisted order has at least one Order Line
C15_NoOrderWithoutLines ==
    \A o \in DOMAIN orders : orders[o].items # <<>>

(* ------------------------------ catalog prices ------------------------- *)
\* the price a PATCH /products/{product_id} sets
PriceUpdates == {300}

\* ProductUpdate: price_ngn is optional (None leaves the price alone), >= 0
ProductUpdate == [has_price : BOOLEAN, price_ngn : PriceUpdates]

\* PATCH /products/{product_id}: 404 when the product does not exist, else
\* p.price_ngn = body.price_ngn when the body carries one; db.commit()
update_product(prods, product_id, body) ==
    IF product_id \notin DOMAIN prods
    THEN [products |-> prods, err |-> "ProductNotFound"]
    ELSE [products |-> IF body.has_price
                       THEN [prods EXCEPT ![product_id] = body.price_ngn]
                       ELSE prods,
          err |-> "none"]

UpdateProduct(product_id, body) ==
    /\ products' = update_product(products, product_id, body).products
    /\ UNCHANGED <<orders, inventory, txns>>

\* orders are placed while the catalog is being repriced
NextCatalog ==
    \/ \E data \in OrderCreate : CreateOrder(data)
    \/ \E product_id \in ProductIds, body \in ProductUpdate : UpdateProduct(product_id, body)

SpecCatalog == Init /\ [][NextCatalog]_vars

\* C16: no step, a change of a product's catalog price included, changes the
\* price or line_total of an existing Order Line or the total of an existing
\* order; an order created in a step takes the catalog prices of that moment
C16_PriceIsSnapshot ==
    [][/\ \A o \in DOMAIN orders :
            /\ o \in DOMAIN orders'
            /\ orders'[o].items = orders[o].items
            /\ orders'[o].total = orders[o].total
       /\ \A o \in DOMAIN orders' \ DOMAIN orders :
            \A k \in DOMAIN orders'[o].items :
                /\ orders'[o].items[k].price = products[orders'[o].items[k].product_id]
                /\ orders'[o].items[k].line_total =
                      products[orders'[o].items[k].product_id] * orders'[o].items[k].qty]_vars

\* an order placed before a price change keeps the old price on its line while
\* an order of the same product placed after it carries the new one
C16_Witness ==
    \E o1, o2 \in DOMAIN orders :
        /\ o1 < o2
        /\ orders[o1].items # <<>> /\ orders[o2].items # <<>>
        /\ orders[o1].items[1].product_id = orders[o2].items[1].product_id
        /\ orders[o1].items[1].price = price_ngn[orders[o1].items[1].product_id]
        /\ orders[o2].items[1].price = products[orders[o2].items[1].product_id]
        /\ orders[o1].items[1].price # orders[o2].items[1].price

\* C17: fulfill_order with an id no order has fails with the order-not-found
\* error and changes no order and no Inventory Record
C17_FulfilUnknownOrderNotFound ==
    \A order_id \in OrderIds \cup {Len(orders) + 1} :
        order_id \notin DOMAIN orders =>
            /\ request_fulfill_order(Db, order_id).err = "OrderNotFound"
            /\ request_fulfill_order(Db, order_id).db = Db

\* an order holding a reservation exists, and the id after the newest order's
\* is refused
C17_Witness ==
    /\ \E o \in DOMAIN orders : orders[o].status = "created" /\ orders[o].items # <<>>
    /\ \E i \in DOMAIN inventory : inventory[i].reserved > 0
    /\ request_fulfill_order(Db, Len(orders) + 1).err = "OrderNotFound"

\* C18: at the API layer InsufficientStock yields a conflict response (409),
\* an unknown product or an unknown order a not-found response (404), and the
\* other refusals of a fulfilment a bad-request response (400)
C18_ErrorKindsMapToOutcomes ==
    /\ \A data \in OrderCreate :
          LET r == create_order_endpoint(Db, data)
          IN  /\ r.error = "InsufficientStock" => r.code = 409
              /\ r.error = "ProductNotFound" => r.code = 404
    /\ \A order_id \in OrderIds \cup {Len(orders) + 1} :
          LET r == fulfill_order_endpoint(Db, order_id, AuditWorks)
          IN  /\ r.error = "OrderNotFound" => r.code = 404
              /\ r.error \in {"InventoryMissing", "ReservedLess", "OnHandLess"} => r.code = 400

\* what an order operation that committed must have notified, and a failed
\* one must not
audited(committed, audit, action, entity_id) ==
    audit = IF committed THEN <<notification(action, entity_id)>> ELSE <<>>

\* C19: every create, fulfil and cancel that succeeds issues one audit
\* notification for the order (entity "order", its id), and one that fails
\* issues none
C19_EngineOperationsAudited ==
    /\ \A data \in OrderCreate :
          audited(request_create_order(Db, data).err = "none",
                  create_order_endpoint(Db, data).audit, "create", Len(orders) + 1)
    /\ \A order_id \in OrderIds :
          audited(request_fulfill_order(Db, order_id).err = "none",
                  fulfill_order_endpoint(Db, order_id, AuditWorks).audit, "fulfill", order_id)
    /\ \A order_id \in OrderIds : \A sel \in InventoryPicks(inventory) :
          audited(request_cancel_order(Db, order_id, sel).err = "none",
                  cancel_order_agent(Db, order_id, sel).audit, "cancel", order_id)

\* C20: whether the logger or the audit store fails or not, audit_log returns
\* normally, and the committed orders and Inventory Records and the response
\* of the order operation are those of the call whose audit worked
C20_AuditFailureChangesNothing ==
    \A order_id \in OrderIds : \A outcome \in AuditOutcomes :
        /\ ~audit_log(outcome, "fulfill", order_id).raised
        /\ fulfill_order_endpoint(Db, order_id, outcome).db
              = fulfill_order_endpoint(Db, order_id, AuditWorks).db
        /\ fulfill_order_endpoint(Db, order_id, outcome).code
              = fulfill_order_endpoint(Db, order_id, AuditWorks).code
        /\ fulfill_order_endpoint(Db, order_id, outcome).error
              = fulfill_order_endpoint(Db, order_id, AuditWorks).error

\* an order with lines has been fulfilled and another can be: the fulfilment
\* commits, and with the audit store down its notification reaches no row
C20_Witness ==
    /\ \E o \in DOMAIN orders : orders[o].status = "fulfilled" /\ orders[o].items # <<>>
    /\ \E o \in DOMAIN orders :
          /\ orders[o].status = "created" /\ orders[o].items # <<>>
          /\ request_fulfill_order(Db, o).err = "none"
          /\ fulfill_order_endpoint(Db, o, AuditWorks).audit_rows # {}
          /\ \E outcome \in AuditOutcomes :
                /\ ~outcome.store
                /\ fulfill_order_endpoint(Db, o, outcome).audit_rows = {}
                /\ fulfill_order_endpoint(Db, o, outcome).db # Db

\* C21: the realtime status event is issued after the commit, and issuing it
\* leaves the committed state alone and never fails the request: a create, a
\* fulfil and a status update whose transaction committed are answered 200
C21_RealtimeNeverFailsRequest ==
    /\ \A data \in OrderCreate :
          request_create_order(Db, data).err = "none" =>
              /\ create_order_endpoint(Db, data).db = request_create_order(Db, data).db
              /\ create_order_endpoint(Db, data).code = 200
    /\ \A order_id \in DOMAIN orders :
          request_fulfill_order(Db, order_id).err = "none" =>
              /\ fulfill_order_endpoint(Db, order_id, AuditWorks).db
                    = request_fulfill_order(Db, order_id).db
              /\ fulfill_order_endpoint(Db, order_id, AuditWorks).code = 200
    /\ \A order_id \in DOMAIN orders : \A status \in OrderUpdateStatus :
          /\ update_order_endpoint(Db, order_id, status, AuditWorks).db
                = set_status(Db, order_id, status)
          /\ update_order_endpoint(Db, order_id, status, AuditWorks).code = 200

(* --------------------------- inventory agent --------------------------- *)
\* payload values of the agent's tools: reorder points and stock adjustments
ReorderPoints == {0, 1}
Adjustments == {-1, 1}

\* a low-stock flag that waits until the stock is below the reorder point
stock_status_below(on_hand, reorder_point) ==
    IF on_hand < reorder_point THEN "low_stock" ELSE "in_stock"

\* "low_stock" if on_hand <= reorder_point else "in_stock"
stock_status(on_hand, reorder_point) ==
    IF on_hand <= reorder_point THEN "low_stock" ELSE "in_stock"

\* func.coalesce(func.sum(column), 0) over the rows of product p
RECURSIVE sum_column(_, _, _)
sum_column(inv, p, column) ==
    IF inv = <<>> THEN 0
    ELSE (IF Head(inv).product_id = p THEN Head(inv)[column] ELSE 0)
         + sum_column(Tail(inv), p, column)

\* InventoryAgent._check_stock: warehouse_id 0 is a payload without one.  The
\* quantities are whole units, on which float() and round(., 2) change nothing.
\* The session only reads and is closed without a commit.
_check_stock(db, product_id, warehouse_id) ==
    IF product_id \notin DOMAIN products
    THEN [db |-> close_session(db, db), success |-> FALSE, on_hand |-> 0,
          reserved |-> 0, available |-> 0, reorder_point |-> 0, status |-> "none"]
    ELSE IF warehouse_id # 0
    THEN LET found == first_inventory(db.inventory, product_id, warehouse_id)
             on_hand == IF found = 0 THEN 0 ELSE db.inventory[found].on_hand
             reserved == IF found = 0 THEN 0 ELSE db.inventory[found].reserved
             reorder_point == IF found = 0 THEN 0 ELSE db.inventory[found].reorder_point
         IN  [db |-> close_session(db, db), success |-> TRUE, on_hand |-> on_hand,
              reserved |-> reserved, available |-> on_hand - reserved,
              reorder_point |-> reorder_point,
              status |-> stock_status(on_hand, reorder_point)]
    ELSE LET on_hand == sum_column(db.inventory, product_id, "on_hand")
             reserved == sum_column(db.inventory, product_id, "reserved")
             total_reorder_point == sum_column(db.inventory, product_id, "reorder_point")
         IN  [db |-> close_session(db, db), success |-> TRUE, on_hand |-> on_hand,
              reserved |-> reserved, available |-> on_hand - reserved,
              reorder_point |-> total_reorder_point,
              status |-> stock_status(on_hand, total_reorder_point)]

\* InventoryAgent._reserve_inventory: the inventory it commits; refused (nothing
\* written) when the record is missing or available < quantity
_reserve_inventory(inv, product_id, warehouse_id, quantity) ==
    LET found == first_inventory(inv, product_id, warehouse_id)
    IN  IF found = 0 THEN inv
        ELSE IF available(inv[found]) < quantity THEN inv
        ELSE [inv EXCEPT ![found].reserved = @ + quantity]

ReserveInventory(product_id, warehouse_id, quantity) ==
    /\ inventory' = _reserve_inventory(inventory, product_id, warehouse_id, quantity)
    /\ UNCHANGED <<orders, txns, products>>

\* InventoryAgent._adjust_inventory: the inventory it commits; refused when the
\* record is missing or new_on_hand < 0
_adjust_inventory(inv, product_id, warehouse_id, adjustment) ==
    LET found == first_inventory(inv, product_id, warehouse_id)
    IN  IF found = 0 THEN inv
        ELSE IF inv[found].on_hand + adjustment < 0 THEN inv
        ELSE [inv EXCEPT ![found].on_hand = @ + adjustment]

AdjustInventory(product_id, warehouse_id, adjustment) ==
    /\ \A i \in DOMAIN inventory : inventory[i].on_hand + adjustment <= MaxStock
    /\ inventory' = _adjust_inventory(inventory, product_id, warehouse_id, adjustment)
    /\ UNCHANGED <<orders, txns, products>>

\* InventoryAgent._update_reorder_points: refused when the record is missing
_update_reorder_points(inv, product_id, warehouse_id, new_reorder_point) ==
    LET found == first_inventory(inv, product_id, warehouse_id)
    IN  IF found = 0 THEN inv
        ELSE [inv EXCEPT ![found].reorder_point = new_reorder_point]

UpdateReorderPoints(product_id, warehouse_id, new_reorder_point) ==
    /\ inventory' = _update_reorder_points(inventory, product_id, warehouse_id,
                                           new_reorder_point)
    /\ UNCHANGED <<orders, txns, products>>

\* order creation and fulfilment interleaved with the inventory agent's tools
NextInventory ==
    \/ \E data \in ShortOrderCreate : CreateOrder(data)
    \/ \E order_id \in OrderIds : FulfillOrder(order_id)
    \/ \E p \in ProductIds, w \in Warehouses, q \in Quantities : ReserveInventory(p, w, q)
    \/ \E p \in ProductIds, w \in Warehouses, a \in Adjustments : AdjustInventory(p, w, a)
    \/ \E p \in ProductIds, w \in Warehouses, rp \in ReorderPoints :
          UpdateReorderPoints(p, w, rp)

\* product 1 stocked in both warehouses, product 2 without a record yet
InitInventory ==
    /\ products = price_ngn
    /\ orders = <<>>
    /\ inventory = <<inventory_row(1, 1, MaxStock, 0), inventory_row(1, 2, MaxStock, 0)>>
    /\ txns = NoTxns

SpecInventory == InitInventory /\ [][NextInventory]_vars

\* the sum of a column over the rows of product p, row by row
ColumnTotal(p, column) ==
    SumSeq([i \in DOMAIN inventory |->
              IF inventory[i].product_id = p THEN inventory[i][column] ELSE 0])

\* C22: the stock check of a catalog product reports available = on_hand -
\* reserved, from the (product, warehouse) record when a warehouse is given
\* (zeros when there is none) and from the sums over all the product's records
\* otherwise; it flags low stock exactly when the reported on_hand <= the
\* reported reorder point; and it changes no order and no inventory record
C22_CheckStockReports ==
    \A p \in DOMAIN products :
        /\ \A w \in Warehouses :
              LET r == _check_stock(Db, p, w)
                  m == {i \in DOMAIN inventory :
                          inventory[i].product_id = p /\ inventory[i].warehouse_id = w}
              IN  /\ r.success /\ r.db = Db
                  /\ m = {} => r.on_hand = 0 /\ r.reserved = 0 /\ r.reorder_point = 0
                  /\ m # {} => /\ r.on_hand = inventory[Min(m)].on_hand
                               /\ r.reserved = inventory[Min(m)].reserved
                               /\ r.reorder_point = inventory[Min(m)].reorder_point
                  /\ r.available = r.on_hand - r.reserved
                  /\ (r.status = "low_stock") <=> (r.on_hand <= r.reorder_point)
                  /\ r.status \in {"low_stock", "in_stock"}
        /\ LET r == _check_stock(Db, p, 0)
           IN  /\ r.success /\ r.db = Db
               /\ r.on_hand = ColumnTotal(p, "on_hand")
               /\ r.reserved = ColumnTotal(p, "reserved")
               /\ r.reorder_point = ColumnTotal(p, "reorder_point")
               /\ r.available = r.on_hand - r.reserved
               /\ (r.status = "low_stock") <=> (r.on_hand <= r.reorder_point)
               /\ r.status \in {"low_stock", "in_stock"}

\* a product whose default-warehouse record stands exactly at its reorder point
\* with units reserved, while its other warehouse's record differs, so that the
\* single view and the aggregate report different figures
C22_Witness ==
    \E i, j \in DOMAIN inventory :
        /\ inventory[i].product_id = inventory[j].product_id
        /\ inventory[i].warehouse_id = DefaultWarehouse
        /\ inventory[j].warehouse_id # DefaultWarehouse
        /\ inventory[i].on_hand = inventory[i].reorder_point
        /\ inventory[i].on_hand > 0
        /\ inventory[i].reserved > 0
        /\ inventory[j].reorder_point = 0
        /\ inventory[j].on_hand > 0
        /\ _check_stock(Db, inventory[i].product_id, DefaultWarehouse).status = "low_stock"
        /\ _check_stock(Db, inventory[i].product_id, 0).status = "in_stock"

\* C27: with the inventory agent's reserve and adjust interleaved with order
\* creation and fulfilment, no inventory record ever has on_hand < 0,
\* reserved < 0 or on_hand < reserved
C27_AgentKeepsStockInvariants ==
    \A i \in DOMAIN inventory :
        /\ 0 <= inventory[i].reserved
        /\ inventory[i].reserved <= inventory[i].on_hand

\* C23: cancelling an order in status created or paid, whichever records the
\* cancellation's queries return, sets its status to cancelled and lowers
\* reserved by the order's quantities, never below zero, on the default
\* warehouse's record of each line's product only: on_hand of every record and
\* reserved of every other record stay as they were
C23_CancelReleasesOnlyOwnRecords ==
    \A o \in DOMAIN orders :
        orders[o].status \in {"created", "paid"} =>
            \A sel \in InventoryPicks(inventory) :
                LET r == request_cancel_order(Db, o, sel)
                IN  /\ r.db.orders = [orders EXCEPT ![o].status = "cancelled"]
                    /\ DOMAIN r.db.inventory = DOMAIN inventory
                    /\ \A i \in DOMAIN inventory :
                          r.db.inventory[i] =
                             IF i = first_inventory(inventory, inventory[i].product_id,
                                                    DefaultWarehouse)
                             THEN [inventory[i] EXCEPT !.reserved =
                                     Max(0, @ - UnitsOf(orders[o].items,
                                                        inventory[i].product_id))]
                             ELSE inventory[i]

(* -------------------------- product deletion --------------------------- *)
\* order_items.product_id references products.id with ondelete="RESTRICT"
referenced(db, product_id) ==
    \E o \in DOMAIN db.orders : \E k \in DOMAIN db.orders[o].items :
        db.orders[o].items[k].product_id = product_id

\* a deletion under which the order lines of the product go with it
delete_product_cascading(db, prods, product_id) ==
    IF product_id \notin DOMAIN prods
    THEN [db |-> db, products |-> prods, err |-> "none"]
    ELSE [db |-> [inventory |-> SelectSeq(db.inventory,
                                          LAMBDA row : row.product_id # product_id),
                  orders |-> [o \in DOMAIN db.orders |->
                                [db.orders[o] EXCEPT !.items =
                                   SelectSeq(@, LAMBDA it : it.product_id # product_id)]]],
          products |-> [p \in DOMAIN prods \ {product_id} |-> prods[p]],
          err |-> "none"]

\* DELETE /products/{product_id}: nothing to do when the product is missing;
\* db.delete(p); db.commit() raises IntegrityError while an order line
\* references the product; otherwise the product goes and, by
\* ondelete="CASCADE", so do its inventory rows
delete_product(db, prods, product_id) ==
    IF product_id \notin DOMAIN prods
    THEN [db |-> db, products |-> prods, err |-> "none"]
    ELSE IF referenced(db, product_id)
    THEN [db |-> db, products |-> prods, err |-> "IntegrityError"]
    ELSE [db |-> [db EXCEPT !.inventory =
                     SelectSeq(@, LAMBDA row : row.product_id # product_id)],
          products |-> [p \in DOMAIN prods \ {product_id} |-> prods[p]],
          err |-> "none"]

DeleteProduct(product_id) ==
    LET r == delete_product(Db, products, product_id)
    IN  /\ orders' = r.db.orders
        /\ inventory' = r.db.inventory
        /\ products' = r.products
        /\ UNCHANGED txns

\* the order operations, on orders of at most one line, beside the catalog's
\* price updates and deletions
NextLifecycle ==
    \/ \E data \in ShortOrderCreate : CreateOrder(data)
    \/ \E order_id \in OrderIds : FulfillOrder(order_id)
    \/ \E order_id \in OrderIds : CancelOrder(order_id)
    \/ \E order_id \in OrderIds, status \in OrderUpdateStatus : UpdateOrder(order_id, status)
    \/ \E order_id \in OrderIds, status \in AgentStatus : UpdateOrderStatus(order_id, status)
    \/ \E order_id \in OrderIds : \E amount \in PayAmounts(order_id) :
          ProcessPayment(order_id, amount)
    \/ \E product_id \in ProductIds, body \in ProductUpdate : UpdateProduct(product_id, body)
    \/ \E product_id \in ProductIds : DeleteProduct(product_id)

SpecLifecycle == Init /\ [][NextLifecycle]_vars

\* C24: once an order exists, no step of any operation removes it, changes its
\* total, or changes or removes any of its lines (product, qty, price,
\* line_total)
C24_LinesAndOrdersPersist ==
    [][\A o \in DOMAIN orders :
          /\ o \in DOMAIN orders'
          /\ orders'[o].items = orders[o].items
          /\ orders'[o].total = orders[o].total]_vars

\* an order with a line was fulfilled, its product was repriced after the sale,
\* another order was moved to cancelled, and a product left the catalog
C24_Witness ==
    /\ \E o \in DOMAIN orders :
          /\ orders[o].status = "fulfilled"
          /\ orders[o].items # <<>>
          /\ orders[o].items[1].product_id \in DOMAIN products
          /\ products[orders[o].items[1].product_id] # orders[o].items[1].price
    /\ \E o \in DOMAIN orders : orders[o].status = "cancelled"
    /\ DOMAIN products # Catalog

(* --------------------------- startup seeding --------------------------- *)
\* a seeding step that adds the record without looking for one
seed_inventory_unchecked(inv, p, w) == Append(inv, inventory_row(p, w, MaxStock, 0))

\* lifespan, one pass of "for p in prods": the record of (p, warehouse) is
\* added, fully stocked, when the query finds none
seed_inventory(inv, p, w) ==
    IF first_inventory(inv, p, w) = 0
    THEN Append(inv, inventory_row(p, w, MaxStock, 0))
    ELSE inv

\* the orders db.query(Product).all() can return the products in
ProductOrders ==
    {q \in [1..Cardinality(DOMAIN products) -> DOMAIN products] :
        \A a, b \in DOMAIN q : a # b => q[a] # q[b]}

RECURSIVE seed_all(_, _, _, _)
seed_all(inv, prods, k, w) ==
    IF k > Len(prods) THEN inv
    ELSE seed_all(seed_inventory(inv, prods[k], w), prods, k + 1, w)

\* lifespan's inventory seeding when the process starts: no request of the
\* process is being served yet; w is the row db.query(Warehouse).first()
\* returns (no ORDER BY); one commit at the end
Lifespan(w, prods) ==
    /\ \A t \in Txns : txns[t].pc \in {"committed", "failed"}
    /\ inventory' = seed_all(inventory, prods, 1, w)
    /\ UNCHANGED <<orders, txns, products>>

\* a session that has returned is replaced by the next create request
Arrive(t, data) ==
    /\ txns[t].pc \in {"committed", "failed"}
    /\ Len(orders) < MaxOrders
    /\ txns' = [txns EXCEPT ![t] = start_create_order(data)]
    /\ UNCHANGED <<orders, inventory, products>>

\* one-unit create requests arrive together, before and after restarts
InitSeeding ==
    /\ products = price_ngn
    /\ orders = EmptyDb.orders
    /\ inventory = EmptyDb.inventory
    /\ txns \in [Txns -> {start_create_order(one_unit(p)) : p \in ProductIds}]

NextSeeding ==
    \/ \E t \in Txns : TxCreateLine(t)
    \/ \E t \in Txns : TxCreateCommit(t)
    \/ \E t \in Txns, p \in ProductIds : Arrive(t, one_unit(p))
    \/ \E w \in Warehouses, prods \in ProductOrders : Lifespan(w, prods)

SpecSeeding == InitSeeding /\ [][NextSeeding]_vars

C26_LazyRecordIsCommitted ==
    \A data \in OrderCreate :
        (/\ data # <<>>
         /\ data[1].product_id \in DOMAIN products
         /\ first_inventory(inventory, data[1].product_id, DefaultWarehouse) = 0) =>
            LET after == request_create_order(Db, data).db.inventory
                found == first_inventory(after, data[1].product_id, DefaultWarehouse)
            IN  /\ found # 0
                /\ after[found].on_hand = 0
                /\ after[found].reserved = 0

\* C28: with the order operations run one at a time, reserved of each record of
\* the default warehouse (0 at the start) is the sum of the line quantities for
\* its product over the orders in status created or paid: fulfilled and
\* cancelled orders hold no reservation
C28_ReservedIsActiveOrdersUnits ==
    \A p \in Catalog :
        LET found == first_inventory(inventory, p, DefaultWarehouse)
        IN  found # 0 =>
              inventory[found].reserved = UnitsHeld(p, {"created", "paid"})

\* C29: fulfilling any order in status created or paid succeeds: no operation
\* on one order makes another active order unfulfillable
C29_ActiveOrderFulfillable ==
    \A o \in DOMAIN orders :
        orders[o].status \in {"created", "paid"} =>
            /\ request_fulfill_order(Db, o).err = "none"
            /\ request_fulfill_order(Db, o).db.orders[o].status = "fulfilled"

(* ------------------------ prices sent by the client -------------------- *)
\* OrderItemIn.price: float | None; the values a request may carry
RequestPrices == {1, 999}

ItemPrice == [has_price : BOOLEAN, price : RequestPrices]

\* the request data with the optional price set on the items chosen by prices
with_prices(data, prices) ==
    [k \in DOMAIN data |->
        IF prices[k].has_price
        THEN [product_id |-> data[k].product_id, qty |-> data[k].qty,
              price |-> prices[k].price]
        ELSE data[k]]

\* C30: two create requests run from the same state that differ only in the
\* optional price of their items end the same way: the same outcome, the same
\* order total, line prices and line totals, and the same inventory
C30_RequestPriceIgnored ==
    \A data \in OrderCreate : \A prices \in [DOMAIN data -> ItemPrice] :
        /\ request_create_order(Db, with_prices(data, prices)) = request_create_order(Db, data)
        /\ create_order(Db, with_prices(data, prices)).total = create_order(Db, data).total

\* after the catalog was repriced and an order placed, a request carrying a
\* price of its own is accepted and its line is stored at the catalog's price
C30_Witness ==
    /\ orders # <<>>
    /\ products # price_ngn
    /\ \E data \in OrderCreate : \E prices \in [DOMAIN data -> ItemPrice] :
          LET r == request_create_order(Db, with_prices(data, prices))
          IN  /\ data # <<>>
              /\ prices[1].has_price
              /\ r.err = "none"
              /\ r.db.orders[Len(orders) + 1].items[1].price = products[data[1].product_id]
              /\ r.db.orders[Len(orders) + 1].items[1].price # prices[1].price
              /\ r.db.inventory # inventory

====
